---- MODULE Spec2Model ----
(***************************************************************************)
(* A model of spider.py: the column crawler of learn.lianglianglee.com.    *)
(* main() fetches the root table of contents, selects columns with         *)
(* generate_toc, and for each column fills the queue from the sub-TOC and  *)
(* runs scrape_worker and progress_bar as two asyncio tasks.               *)
(*                                                                         *)
(* Strings are sequences of one-character strings.  A title stands for    *)
(* the whole root entry {"type", "title", "href"}.                         *)
(***************************************************************************)
EXTENDS Integers, Sequences, FiniteSets, TLC

\* ------------------------------------------------------------- bounds
\* entries of a column's sub-TOC page
MaxSub == 2
\* img elements of an article body
MaxImgs == 1
\* entries of a root TOC handed to generate_toc
MaxRoot == 3
\* length of a --keyword string
MaxKw == 2
\* length of a --range string
MaxRangeLen == 3
\* number of --column options
MaxCols == 2

\* the children of a <ul>, at most
MaxToc == 3

\* the characters of an img src, at most
MaxSrc == 3

\* the units of a column shown by percent_complete, at most
MaxTotal == 4

\* the widths of the bar that stand for the default
MaxWidth == 3

\* ------------------------------------------------------------- strings
Chars == {"a", "b"}

RangeChars == {"0", "1", "2", "3", "-"}

\* the titles of the site's columns
TitleSet == { <<"a">>, <<"a", "b">>, <<"b">> }

\* the root TOC page of the site, as parse_toc returns it
SiteRoot == << <<"a">>, <<"a", "b">>, <<"b">> >>

\* the number of entries on the page of column c
SiteSub(c) == IF c = <<"a">> THEN MaxSub ELSE IF c = <<"a", "b">> THEN 1 ELSE 0

SeqsUpTo(S, n) == UNION { [1..k -> S] : k \in 0..n }

\* Python's `sub in s` for strings
Contains(sub, s) ==
    \E i \in 1..(Len(s) + 1) :
        /\ i + Len(sub) - 1 <= Len(s)
        /\ SubSeq(s, i, i + Len(sub) - 1) = sub

\* Python's s.split('-')
RECURSIVE Split(_)
Split(s) ==
    IF \A i \in 1..Len(s) : s[i] # "-"
    THEN << s >>
    ELSE LET i == CHOOSE k \in 1..Len(s) :
                      s[k] = "-" /\ \A j \in 1..(k - 1) : s[j] # "-"
         IN  << SubSeq(s, 1, i - 1) >> \o Split(SubSeq(s, i + 1, Len(s)))

Digit(c) == CASE c = "0" -> 0 [] c = "1" -> 1 [] c = "2" -> 2 [] OTHER -> 3

\* Python's int(s) raises ValueError on the empty string
IsInt(s) == Len(s) > 0 /\ \A i \in 1..Len(s) : s[i] # "-"

RECURSIVE ToInt(_)
ToInt(s) ==
    IF Len(s) = 0 THEN 0
    ELSE 10 * ToInt(SubSeq(s, 1, Len(s) - 1)) + Digit(s[Len(s)])

\* Python's seq[lo:hi], negative indices counted from the end
PySlice(s, lo, hi) ==
    LET n == Len(s)
        Norm(i) == IF i < 0 THEN (IF i + n < 0 THEN 0 ELSE i + n)
                   ELSE (IF i > n THEN n ELSE i)
    IN  SubSeq(s, Norm(lo) + 1, Norm(hi))

\* [item for item in root_toc if item["title"] in args.columns]
RECURSIVE SelectColumns(_, _)
SelectColumns(root, cs) ==
    IF root = << >> THEN << >>
    ELSE (IF \E i \in 1..Len(cs) : cs[i] = Head(root)
          THEN << Head(root) >> ELSE << >>) \o SelectColumns(Tail(root), cs)

\* [item for item in root_toc if args.keyword in item["title"]]
RECURSIVE SelectKeyword(_, _)
SelectKeyword(root, kw) ==
    IF root = << >> THEN << >>
    ELSE (IF Contains(kw, Head(root))
          THEN << Head(root) >> ELSE << >>) \o SelectKeyword(Tail(root), kw)

\* ------------------------------------------------------------ generate_toc
\* args: the argparse namespace.  None and the empty value are both falsy and
\* are both written << >>.  `mode` records which option of the mutually
\* exclusive group the command line gave; generate_toc never reads it.
ArgsAll == [mode |-> "all", all |-> TRUE, columns |-> << >>, range |-> << >>,
            keyword |-> << >>]

ArgsColumns(cs) == [mode |-> "columns", all |-> FALSE, columns |-> cs,
                    range |-> << >>, keyword |-> << >>]

ArgsRange(r) == [mode |-> "range", all |-> FALSE, columns |-> << >>,
                 range |-> r, keyword |-> << >>]

ArgsKeyword(k) == [mode |-> "keyword", all |-> FALSE, columns |-> << >>,
                   range |-> << >>, keyword |-> k]

Truthy(s) == Len(s) > 0

\* the result of generate_toc, or raised = TRUE when it raises ValueError
generate_toc(root, a) ==
    IF a.all THEN [raised |-> FALSE, toc |-> root]
    ELSE IF Truthy(a.columns) THEN
        [raised |-> FALSE,
         toc |-> SelectColumns(root, a.columns)]
    ELSE IF Truthy(a.range) THEN
        LET parts == Split(a.range)
        IN  IF Len(parts) # 2 \/ ~IsInt(parts[1]) \/ ~IsInt(parts[2])
            THEN [raised |-> TRUE, toc |-> << >>]
            ELSE [raised |-> FALSE,
                  toc |-> PySlice(root, ToInt(parts[1]) - 1, ToInt(parts[2]))]
    ELSE IF Truthy(a.keyword) THEN
        [raised |-> FALSE,
         toc |-> SelectKeyword(root, a.keyword)]
    ELSE [raised |-> FALSE, toc |-> << >>]

\* the command lines of the crawl
MainArgs == { ArgsRange(<<"1", "-", "2">>), ArgsColumns(<< <<"a", "b">> >>),
              ArgsKeyword(<<"b">>) }

\* ------------------------------------------------------------ documents, files
\* What the crawler reads of an HTML document: whether it has a book-post
\* container, whether that holds a div with a p child, and how many img
\* elements that div holds (their src attributes are 1..imgs).
NoDoc == [post |-> FALSE, body |-> FALSE, imgs |-> 0]

Docs == { NoDoc, [post |-> TRUE, body |-> FALSE, imgs |-> 0] }
            \cup { [post |-> TRUE, body |-> TRUE, imgs |-> k] : k \in 0..MaxImgs }

\* A file: kind "none" is a path that does not exist.
NoFile == [kind |-> "none", doc |-> NoDoc]

File(k, d) == [kind |-> k, doc |-> d]

\* aiofiles.os.path.exists
Exists(f) == f.kind # "none"

Pages == TitleSet \X (1..MaxSub)

Images == TitleSet \X (1..MaxImgs)

\* ------------------------------------------------------------ units of work
NoItem == [type |-> "none", column |-> << >>, page |-> 0, src |-> 0]

\* a sub-TOC entry, with its column set by get_sub_toc
ScrapeItem(c, p) == [type |-> "scrape", column |-> c, page |-> p, src |-> 0]

\* the item parse_imgs builds for an img of page p
ImgItem(c, p, i) == [type |-> "dl_img", column |-> c, page |-> p, src |-> i]

PageOf(it) == << it.column, it.page >>

ImageOf(it) == << it.column, it.src >>

VARIABLES
    args,        \* the parsed command line
    root_toc,    \* main: root_toc
    toc,         \* main: toc
    col,         \* main: index of `item` in toc
    mainPc,      \* main's position
    queue,       \* the asyncio.Queue
    completed,   \* completed_task_count
    total,       \* total_task_count
    wPc,         \* scrape_worker's position
    item,        \* scrape_worker: item
    downloaded,  \* scrape_and_persist: downloaded
    processed,   \* scrape_and_persist: processed
    data,        \* scrape_and_persist: data
    pPc,         \* progress_bar's position
    title,       \* progress_bar: whether `title` is bound
    raw,         \* <Workspace>/<column>/<md5>.html
    mdf,         \* <ObsidianVaultPath>/<column>/<basename>
    imgf,        \* <ObsidianVaultPath>/<column>/<src>
    colDirs,     \* the <ObsidianVaultPath>/<column> directories that exist
    rawDirs,     \* the <Workspace>/<column> directories that exist
    call,        \* a function called on its own: its name and arguments
    ret,         \* what that call returned
    hist         \* history of the run, read by no action's guard

vars == << args, root_toc, toc, col, mainPc, queue, completed, total, wPc, item,
           downloaded, processed, data, pPc, title, raw, mdf, imgf,
           colDirs, rawDirs, call, ret, hist >>

mainVars == << args, root_toc, toc, col, mainPc, call, ret >>

workerVars == << wPc, item, downloaded, processed, data >>

progVars == << pPc, title >>

fsVars == << raw, mdf, imgf, colDirs, rawDirs >>

\* hist.enq, deq, raised: units enqueued, dequeued, and whose processing raised,
\*   since the last reset of the counters
\* hist.fetches: fetch_html calls of scrape_and_persist for the current item
\* hist.gets: session.get calls of dl_file for the current item
\* hist.dlCalls: calls of dl_file for the current item
\* hist.wrote: the files scrape_and_persist opened for writing for the current
\*   item: "whole" the rendered output of the whole-page branch, "raw" the raw
\*   cache, "md" the rendered output of the conversion
\* hist.startRaw, startMd, startImg: the item's files when its processing began
\* hist.prev: the rendered output left by the last run of scrape_and_persist on
\*   the item's page when that run returned normally, else NoFile
\* hist.last: per page, the same for the next run
\* hist.ended: how the processing of the current item ended: "ok", "raised",
\*   or "nodir" when it raised because the directory of the file to open is
\*   missing
\* hist.started: the columns whose counters were reset, in order
\* hist.busyAtReset: whether a task of the previous column was still running at
\*   a reset
\* hist.net: what the last call of fetch_html or dl_file did, in order, up to
\*   its return or its exception
HistInit ==
    [enq |-> 0, deq |-> 0, raised |-> 0, fetches |-> 0, gets |-> 0,
     dlCalls |-> 0, wrote |-> {},
     startRaw |-> NoFile, startMd |-> NoFile, startImg |-> NoFile,
     prev |-> NoFile, last |-> [p \in Pages |-> NoFile], ended |-> "none",
     started |-> << >>, busyAtReset |-> FALSE, net |-> << >>]

\* no function is called on its own in a run of main
NoCall == [fn |-> "none"]

NoRet == [raised |-> FALSE]

ProgramInit ==
    /\ root_toc = << >>
    /\ toc = << >>
    /\ col = 0
    /\ queue = << >>
    /\ completed = 0
    /\ total = 0
    /\ wPc = "idle"
    /\ item = NoItem
    /\ downloaded = FALSE
    /\ processed = FALSE
    /\ data = NoDoc
    /\ pPc = "idle"
    /\ title = "unbound"
    /\ call = NoCall
    /\ ret = NoRet

FsInit ==
    /\ raw = [p \in Pages |-> NoFile]
    /\ mdf = [p \in Pages |-> NoFile]
    /\ imgf = [i \in Images |-> NoFile]
    /\ colDirs = {}
    /\ rawDirs = {}

Init ==
    /\ args \in MainArgs
    /\ mainPc = "root"
    /\ ProgramInit
    /\ FsInit
    /\ hist = HistInit

\* ------------------------------------------------------------ main
\* fetch_html without its sleep
fetch_html_Unthrottled == << "get" >>

\* fetch_html: await asyncio.sleep(RequestFrequency), then session.get(url)
fetch_html == << "sleep", "get" >>

\* dl_file: create_dir_if_not_exists, await asyncio.sleep(RequestFrequency),
\* session.get(url), aiofiles.open(output, 'wb'); out is where it stops
dl_file(out) ==
    IF out = "fs" THEN << "makedirs" >>
    ELSE IF out = "net" THEN << "makedirs", "sleep", "get" >>
    ELSE << "makedirs", "sleep", "get", "open" >>

\* what fetch_html gives: it raises on a status other than 200
FetchOutcomes == { [ok |-> FALSE, doc |-> NoDoc] }
                    \cup { [ok |-> TRUE, doc |-> d] : d \in Docs }

\* get_sub_toc putting the entries on the queue last first
RECURSIVE PutSubToc_Reversed(_, _, _, _)
PutSubToc_Reversed(q, t, c, m) ==
    IF m = 0 THEN [queue |-> q, total |-> t]
    ELSE LET before == PutSubToc_Reversed(q, t, c, m - 1)
         IN  [queue |-> << ScrapeItem(c, m) >> \o before.queue,
              total |-> before.total + 1]

\* get_sub_toc's loop over the first m entries of the sub-TOC of column c:
\* queue.put(sub_toc), then total_task_count + 1
RECURSIVE PutSubToc(_, _, _, _)
PutSubToc(q, t, c, m) ==
    IF m = 0 THEN [queue |-> q, total |-> t]
    ELSE LET before == PutSubToc(q, t, c, m - 1)
         IN  [queue |-> Append(before.queue, ScrapeItem(c, m)),
              total |-> before.total + 1]

\* root_toc = await get_root_toc(session, "/"); toc = generate_toc(root_toc, args)
GetRootToc ==
    /\ mainPc = "root"
    /\ \E ok \in BOOLEAN :
        LET r == generate_toc(SiteRoot, args)
        IN  IF ~ok \/ r.raised
            THEN /\ mainPc' = "aborted"
                 /\ UNCHANGED << root_toc, toc, col >>
            ELSE /\ root_toc' = SiteRoot
                 /\ toc' = r.toc
                 /\ col' = IF Len(r.toc) > 0 THEN 1 ELSE 0
                 /\ mainPc' = IF Len(r.toc) > 0 THEN "reset" ELSE "finished"
    /\ hist' = [hist EXCEPT !.net = fetch_html]
    /\ UNCHANGED << call, ret, args, queue, completed, total, workerVars,
                    progVars, fsVars >>

TaskRunning(pc) == pc \notin {"idle", "done", "crashed", "cancelled"}

\* for item in toc: completed_task_count.set(0); total_task_count.set(0)
ResetColumn ==
    /\ mainPc = "reset"
    /\ completed' = 0
    /\ total' = 0
    /\ mainPc' = "sub"
    /\ hist' = [hist EXCEPT !.enq = 0, !.deq = 0, !.raised = 0,
                            !.started = Append(@, toc[col]),
                            !.busyAtReset = TaskRunning(wPc) \/ TaskRunning(pPc)]
    /\ UNCHANGED << call, ret, args, root_toc, toc, col, queue, workerVars,
                    progVars, fsVars >>

\* await get_sub_toc(queue, session, item), then the two create_task calls.
\* fetch_html raises when the column's page is not served.
GetSubToc ==
    /\ mainPc = "sub"
    /\ \E ok \in BOOLEAN :
        IF ~ok
        THEN /\ mainPc' = "aborted"
             /\ hist' = [hist EXCEPT !.net = fetch_html]
             /\ UNCHANGED << queue, total, wPc, pPc, title >>
        ELSE LET m == SiteSub(toc[col])
                 r == PutSubToc(queue, total, toc[col], m)
             IN  /\ queue' = r.queue
                 /\ total' = r.total
                 /\ hist' = [hist EXCEPT !.enq = @ + m, !.net = fetch_html]
                 /\ pPc' = "start"
                 /\ title' = "unbound"
                 /\ wPc' = "loop"
                 /\ mainPc' = "await_worker"
    /\ UNCHANGED << call, ret, args, root_toc, toc, col, completed, item,
                    downloaded, processed, data, fsVars >>

\* await worker: an exception of the worker task is raised here and ends main;
\* asyncio.run then cancels the progress task
AwaitWorker ==
    /\ mainPc = "await_worker"
    /\ wPc \in {"done", "crashed"}
    /\ IF wPc = "done"
       THEN /\ mainPc' = "await_progress"
            /\ pPc' = pPc
       ELSE /\ mainPc' = "aborted"
            /\ pPc' = IF TaskRunning(pPc) THEN "cancelled" ELSE pPc
    /\ UNCHANGED << call, ret, args, root_toc, toc, col, queue, completed,
                    total, workerVars, title, fsVars, hist >>

\* the loop going on to the next item of toc without `await progress`
AwaitProgress_NotAwaited ==
    /\ mainPc = "await_progress"
    /\ IF col < Len(toc)
       THEN /\ mainPc' = "reset"
            /\ col' = col + 1
       ELSE /\ mainPc' = "finished"
            /\ col' = col
    /\ UNCHANGED << call, ret, args, root_toc, toc, queue, completed, total,
                    workerVars, progVars, fsVars, hist >>

\* await progress, then the next item of toc
AwaitProgress ==
    /\ mainPc = "await_progress"
    /\ pPc \in {"done", "crashed"}
    /\ IF pPc = "crashed"
       THEN /\ mainPc' = "aborted"
            /\ col' = col
       ELSE IF col < Len(toc)
       THEN /\ mainPc' = "reset"
            /\ col' = col + 1
       ELSE /\ mainPc' = "finished"
            /\ col' = col
    /\ UNCHANGED << call, ret, args, root_toc, toc, queue, completed, total,
                    workerVars, progVars, fsVars, hist >>

\* the user runs the same command again: a new process over the files the last
\* one left
Rerun ==
    /\ mainPc \in {"finished", "aborted"}
    /\ mainPc' = "root"
    /\ root_toc' = << >>
    /\ toc' = << >>
    /\ col' = 0
    /\ queue' = << >>
    /\ completed' = 0
    /\ total' = 0
    /\ wPc' = "idle"
    /\ item' = NoItem
    /\ downloaded' = FALSE
    /\ processed' = FALSE
    /\ data' = NoDoc
    /\ pPc' = "idle"
    /\ title' = "unbound"
    /\ hist' = [HistInit EXCEPT !.last = hist.last]
    /\ UNCHANGED << call, ret, args, fsVars >>

\* ------------------------------------------------------------ scrape_worker
\* the counter incremented in the try block and again after it
CountCompleted_Twice(c) == c + 2

\* completed_task_count.set(completed_task_count.get() + 1), the last statement
\* of the try block
CountCompleted(c) == c + 1

\* The except clause logs item['href'].  A scrape item has that key and the
\* loop goes on; a dl_img item has none, the KeyError leaves scrape_worker.
HandlerPc(it) == IF it.type = "scrape" THEN "loop" ELSE "crashed"

\* an exception raised while the current item is processed; the locals of
\* scrape_and_persist are gone
Caught ==
    /\ wPc' = HandlerPc(item)
    /\ completed' = completed
    /\ downloaded' = FALSE
    /\ processed' = FALSE
    /\ data' = NoDoc

\* the item was processed and the try block ran to its end
Processed ==
    /\ wPc' = "loop"
    /\ completed' = CountCompleted(completed)
    /\ downloaded' = FALSE
    /\ processed' = FALSE
    /\ data' = NoDoc

\* while not queue.empty(): false.  The worker task starts after the first step
\* of the progress task, which was created first.
WorkerExit ==
    /\ wPc = "loop"
    /\ pPc # "start"
    /\ queue = << >>
    /\ wPc' = "done"
    /\ UNCHANGED << mainVars, queue, completed, total, item, downloaded, processed,
                    data, progVars, fsVars, hist >>

\* item = await queue.get(), and for a scrape item the two exists() calls that
\* open scrape_and_persist
WorkerGet ==
    /\ wPc = "loop"
    /\ pPc # "start"
    /\ queue # << >>
    /\ item' = Head(queue)
    /\ queue' = Tail(queue)
    /\ LET it == Head(queue)
       IN  IF it.type = "scrape"
           THEN /\ wPc' = "acquire"
                /\ downloaded' = Exists(raw[PageOf(it)])
                /\ processed' = Exists(mdf[PageOf(it)])
                /\ hist' = [hist EXCEPT !.deq = @ + 1, !.fetches = 0, !.gets = 0,
                                        !.dlCalls = 0, !.wrote = {}, !.net = << >>,
                                        !.startRaw = raw[PageOf(it)],
                                        !.startMd = mdf[PageOf(it)],
                                        !.startImg = NoFile,
                                        !.prev = hist.last[PageOf(it)],
                                        !.ended = "none"]
           ELSE /\ wPc' = "dl"
                /\ UNCHANGED << downloaded, processed >>
                /\ hist' = [hist EXCEPT !.deq = @ + 1, !.fetches = 0, !.gets = 0,
                                        !.dlCalls = 0, !.wrote = {}, !.net = << >>,
                                        !.startRaw = NoFile, !.startMd = NoFile,
                                        !.startImg = imgf[ImageOf(it)],
                                        !.prev = NoFile, !.ended = "none"]
    /\ UNCHANGED << mainVars, completed, total, data, progVars, fsVars >>

\* load_content_from_local wraps the file's text in a book-post div and a div
load_content_from_local(f) == [post |-> TRUE, body |-> f.doc.body, imgs |-> f.doc.imgs]

\* the page fetched on every run
FetchesPage_Always(dl, pr) == TRUE

\* the page fetched unless the rendered output exists
FetchesPage_UnlessProcessed(dl, pr) == ~pr

\* if downloaded: load from local, else: fetch_html
FetchesPage(dl, pr) == ~dl

ScrapeAcquire ==
    /\ wPc = "acquire"
    /\ IF ~FetchesPage(downloaded, processed)
       THEN /\ data' = load_content_from_local(raw[PageOf(item)])
            /\ wPc' = "extract"
            /\ UNCHANGED << completed, downloaded, processed, hist >>
       ELSE \E r \in FetchOutcomes :
            IF r.ok
            THEN /\ data' = r.doc
                 /\ wPc' = "extract"
                 /\ hist' = [hist EXCEPT !.fetches = @ + 1, !.net = fetch_html]
                 /\ UNCHANGED << completed, downloaded, processed >>
            ELSE /\ Caught
                 /\ hist' = [hist EXCEPT !.fetches = @ + 1, !.raised = @ + 1,
                                         !.ended = "raised", !.net = fetch_html,
                                         !.last[PageOf(item)] = NoFile]
    /\ UNCHANGED << mainVars, queue, total, item, progVars, fsVars >>

\* parse_imgs with the count of the total left out
parse_imgs_Uncounted(q, t, it, n) ==
    [queue |-> q \o [i \in 1..n |-> ImgItem(it.column, it.page, i)], total |-> t]

\* parse_imgs' loop over the first n img elements of the article body of the
\* page of `it`: queue.put(item), then total_task_count + 1
RECURSIVE parse_imgs(_, _, _, _)
parse_imgs(q, t, it, n) ==
    IF n = 0 THEN [queue |-> q, total |-> t]
    ELSE LET before == parse_imgs(q, t, it, n - 1)
         IN  [queue |-> Append(before.queue, ImgItem(it.column, it.page, n)),
              total |-> before.total + 1]

\* if not posts and not downloaded: save the whole html
WholePage(d, dl, pr) == ~d.post /\ ~dl

\* html.fromstring(data) up to parse_imgs.  The whole-page branch opens
\* md_file_path without creating its directory first.
ScrapeExtract ==
    /\ wPc = "extract"
    /\ IF WholePage(data, downloaded, processed)
       THEN \E fsOk \in BOOLEAN :
            IF fsOk /\ item.column \in colDirs
            THEN /\ mdf' = [mdf EXCEPT ![PageOf(item)] = File("html", data)]
                 /\ Processed
                 /\ hist' = [hist EXCEPT !.ended = "ok", !.wrote = {"whole"},
                                         !.last[PageOf(item)] = File("html", data)]
                 /\ UNCHANGED << queue, total >>
            ELSE /\ Caught
                 /\ hist' = [hist EXCEPT !.raised = @ + 1,
                                         !.ended = IF item.column \in colDirs
                                                   THEN "raised" ELSE "nodir",
                                         !.last[PageOf(item)] = NoFile]
                 /\ UNCHANGED << queue, total, mdf >>
       ELSE IF ~data.post \/ ~data.body
       THEN \* posts[0] of an empty list, or content is None in parse_imgs
            /\ Caught
            /\ hist' = [hist EXCEPT !.raised = @ + 1, !.ended = "raised",
                                    !.last[PageOf(item)] = NoFile]
            /\ UNCHANGED << queue, total, mdf >>
       ELSE LET r == parse_imgs(queue, total, item, data.imgs)
            IN  /\ queue' = r.queue
                /\ total' = r.total
                /\ wPc' = "persist"
                /\ hist' = [hist EXCEPT !.enq = @ + data.imgs]
                /\ UNCHANGED << completed, downloaded, processed, data, mdf >>
    /\ UNCHANGED << mainVars, item, progVars, raw, imgf, colDirs, rawDirs >>

\* if not downloaded: write the raw cache
WritesRaw(dl, pr) == ~dl

\* the rendered output written on every run
WritesMd_Always(dl, pr) == TRUE

\* if not processed: write the rendered output
WritesMd(dl, pr) == ~pr

\* md.convert_local(raw_file_path).text_content
convert_local(f) == File("md", f.doc)

\* The two persistence blocks.  out is where an OSError or a failure of
\* convert_local stops them: "raw" before the raw cache is written, "dir"
\* before the rendered output is opened, "convert" after it was opened for
\* writing and so created.
ScrapePersist ==
    /\ wPc = "persist"
    /\ \E out \in {"ok", "raw", "dir", "convert"} :
        LET pg == PageOf(item)
            wr == WritesRaw(downloaded, processed)
            wm == WritesMd(downloaded, processed)
            rawNow == IF wr /\ out # "raw" THEN File("raw", data) ELSE raw[pg]
            mdNow == IF ~wm \/ out \in {"raw", "dir"} THEN mdf[pg]
                     ELSE IF out = "convert" THEN File("empty", NoDoc)
                     ELSE convert_local(rawNow)
            wrote == (IF wr /\ out # "raw" THEN {"raw"} ELSE {})
                        \cup (IF wm /\ out \in {"ok", "convert"} THEN {"md"} ELSE {})
        IN  /\ out = "raw" => wr
            /\ out \in {"dir", "convert"} => wm
            /\ raw' = [raw EXCEPT ![pg] = rawNow]
            /\ rawDirs' = IF wr /\ out # "raw" THEN rawDirs \cup {item.column}
                          ELSE rawDirs
            /\ mdf' = [mdf EXCEPT ![pg] = mdNow]
            /\ colDirs' = IF wm /\ out \in {"ok", "convert"}
                          THEN colDirs \cup {item.column} ELSE colDirs
            /\ IF out = "ok"
               THEN /\ Processed
                    /\ hist' = [hist EXCEPT !.ended = "ok", !.wrote = wrote,
                                            !.last[pg] = mdNow]
               ELSE /\ Caught
                    /\ hist' = [hist EXCEPT !.raised = @ + 1, !.ended = "raised",
                                            !.wrote = wrote, !.last[pg] = NoFile]
    /\ UNCHANGED << mainVars, queue, total, item, progVars, imgf >>

\* dl_img without its check of the output path
SkipsImage_Never(f) == FALSE

\* dl_img: if the output exists, return
SkipsImage(f) == Exists(f)

\* dl_img and dl_file.  out is what happens in dl_file: "fs" an OSError of
\* makedirs or open, "net" an exception of session.get, "bad" a response whose
\* status is not 200, "ok" a 200.  dl_file writes the body of any response.
DlImg ==
    /\ wPc = "dl"
    /\ IF SkipsImage(imgf[ImageOf(item)])
       THEN /\ Processed
            /\ hist' = [hist EXCEPT !.ended = "ok"]
            /\ UNCHANGED << imgf, colDirs >>
       ELSE \E out \in {"ok", "bad", "net", "fs"} :
            /\ colDirs' = IF out = "fs" THEN colDirs ELSE colDirs \cup {item.column}
            /\ imgf' = IF out \in {"ok", "bad"}
                       THEN [imgf EXCEPT ![ImageOf(item)] =
                                 File(IF out = "ok" THEN "png" ELSE "error", NoDoc)]
                       ELSE imgf
            /\ IF out \in {"ok", "bad"}
               THEN /\ Processed
                    /\ hist' = [hist EXCEPT !.ended = "ok", !.gets = @ + 1,
                                            !.dlCalls = @ + 1, !.net = dl_file(out)]
               ELSE /\ Caught
                    /\ hist' = [hist EXCEPT !.raised = @ + 1, !.ended = "raised",
                                            !.dlCalls = @ + 1, !.net = dl_file(out),
                                            !.gets = IF out = "net" THEN @ + 1 ELSE @]
    /\ UNCHANGED << mainVars, queue, total, item, progVars, raw, mdf, rawDirs >>

\* ------------------------------------------------------------ progress_bar
\* percent_complete divides by total_steps
Renders(step, total_steps) == total_steps # 0

\* a loop left after its first test whatever the queue holds
ProgLoop_Once(q) == "final"

\* while not queue.empty(): where progress_bar sleeps next
ProgLoop(q) == IF q # << >> THEN "sleeping" ELSE "final"

\* the task's first step: the first test of the loop
ProgStart ==
    /\ pPc = "start"
    /\ pPc' = ProgLoop(queue)
    /\ UNCHANGED << mainVars, queue, completed, total, workerVars, title, fsVars,
                    hist >>

\* the body of the loop after its sleep: read the counters, bind title,
\* render, test the loop again
ProgSample ==
    /\ pPc = "sleeping"
    /\ title' = "bound"
    /\ pPc' = IF Renders(completed, total) THEN ProgLoop(queue) ELSE "crashed"
    /\ UNCHANGED << mainVars, queue, completed, total, workerVars, fsVars, hist >>

\* after the loop and its sleep: percent_complete(total_count, total_count,
\* title=title); title is unbound when the loop body never ran
ProgFinal ==
    /\ pPc = "final"
    /\ pPc' = IF title = "bound" /\ Renders(total, total) THEN "done" ELSE "crashed"
    /\ UNCHANGED << mainVars, queue, completed, total, workerVars, title, fsVars,
                    hist >>

\* ------------------------------------------------------------ specification
\* one run of the program over an empty output and workspace
Next ==
    \/ GetRootToc
    \/ ResetColumn
    \/ GetSubToc
    \/ AwaitWorker
    \/ AwaitProgress
    \/ WorkerExit
    \/ WorkerGet
    \/ ScrapeAcquire
    \/ ScrapeExtract
    \/ ScrapePersist
    \/ DlImg
    \/ ProgStart
    \/ ProgSample
    \/ ProgFinal

Spec == Init /\ [][Next]_vars

\* runs of the program on one column, each over the files the last one left
InitRerun ==
    /\ args = ArgsColumns(<< <<"a", "b">> >>)
    /\ mainPc = "root"
    /\ ProgramInit
    /\ FsInit
    /\ hist = HistInit

NextRerun ==
    \/ Next
    \/ Rerun

SpecRerun == InitRerun /\ [][NextRerun]_vars

\* generate_toc on the root TOCs and command lines within the bounds
TocArgs ==
    { ArgsAll }
        \cup { ArgsColumns(cs) : cs \in SeqsUpTo(TitleSet, MaxCols) \ { << >> } }
        \cup { ArgsRange(r) : r \in SeqsUpTo(RangeChars, MaxRangeLen) }
        \cup { ArgsKeyword(k) : k \in SeqsUpTo(Chars, MaxKw) }

InitToc ==
    /\ args \in TocArgs
    /\ root_toc \in SeqsUpTo(TitleSet, MaxRoot)
    /\ mainPc = "select"
    /\ toc = << >>
    /\ col = 0
    /\ queue = << >>
    /\ completed = 0
    /\ total = 0
    /\ wPc = "idle"
    /\ item = NoItem
    /\ downloaded = FALSE
    /\ processed = FALSE
    /\ data = NoDoc
    /\ pPc = "idle"
    /\ title = "unbound"
    /\ call = NoCall
    /\ ret = NoRet
    /\ FsInit
    /\ hist = HistInit

\* toc = generate_toc(root_toc, args)
SelectToc ==
    /\ mainPc = "select"
    /\ LET r == generate_toc(root_toc, args)
       IN  /\ toc' = r.toc
           /\ mainPc' = IF r.raised THEN "aborted" ELSE "selected"
    /\ UNCHANGED << call, ret, args, root_toc, col, queue, completed, total,
                    workerVars, progVars, fsVars, hist >>

NextToc == SelectToc

SpecToc == InitToc /\ [][NextToc]_vars

\* ------------------------------------------------------------ functions
\* parse_toc, the src handling of parse_imgs and percent_complete, each called
\* on its own on the arguments within the bounds

\* a child of the <ul> without an <a>
NoLink == << >>

\* the children of a page's <ul>: NoLink, or the title of the child's <a>
TocEntries == { NoLink } \cup TitleSet

\* The pages parse_toc is given: post, whether the body has a book-post
\* element; ul, whether the first of them (or else the body) has a <ul>; items,
\* the children of that <ul>.
TocPages ==
    { [post |-> p, ul |-> FALSE, items |-> << >>] : p \in BOOLEAN }
        \cup { [post |-> p, ul |-> TRUE, items |-> its] :
                   p \in BOOLEAN, its \in SeqsUpTo(TocEntries, MaxToc) }

\* the loop of parse_toc: an entry for every child that has an <a>
RECURSIVE TocResults(_)
TocResults(items) ==
    IF items = << >> THEN << >>
    ELSE IF Head(items) = NoLink THEN TocResults(Tail(items))
    ELSE << Head(items) >> \o TocResults(Tail(items))

\* parse_toc(html_content).  posts[0].find('.//ul') is None when the element
\* has no <ul>, and None has no iterchildren.
parse_toc(h) ==
    IF ~h.post THEN [raised |-> FALSE, toc |-> << >>]
    ELSE IF ~h.ul THEN [raised |-> TRUE, toc |-> << >>]
    ELSE [raised |-> FALSE, toc |-> TocResults(h.items)]

ParseToc ==
    /\ mainPc = "call"
    /\ call.fn = "parse_toc"
    /\ ret' = parse_toc(call.html)
    /\ mainPc' = "returned"
    /\ UNCHANGED << call, args, root_toc, toc, col, queue, completed, total,
                    workerVars, progVars, fsVars, hist >>

\* the characters of an img's src: a letter, the dot, the path separator and a
\* character that urllib.parse.quote escapes
SrcChars == {"a", ".", "/", " "}

Srcs == SeqsUpTo(SrcChars, MaxSrc) \ { << >> }

\* urllib.parse.quote(s, safe='/')
RECURSIVE quote(_)
quote(s) ==
    IF s = << >> THEN << >>
    ELSE (IF Head(s) = " " THEN << "%", "2", "0" >> ELSE << Head(s) >>)
             \o quote(Tail(s))

\* urllib.parse.unquote(s): no src within the bounds holds an escape
unquote(s) == s

\* s.split(c)
RECURSIVE SplitOn(_, _)
SplitOn(s, c) ==
    IF s = << >> THEN << << >> >>
    ELSE LET rest == SplitOn(Tail(s), c)
         IN  IF Head(s) = c THEN << << >> >> \o rest
             ELSE << << Head(s) >> \o Head(rest) >> \o Tail(rest)

\* os.path.join(a, b)
join(a, b) == IF b # << >> /\ Head(b) = "/" THEN b ELSE a \o << "/" >> \o b

\* abs_parent_dir, the column's directory
ColumnDir == << "d" >>

\* The body of parse_imgs' loop for an img whose src is s: relative_path, the
\* src attribute after `if len(img.get('src').split('.')) < 2`, and output.
parse_img(s) ==
    LET relative_path == IF s = unquote(s) THEN quote(s) ELSE s
        src == IF Len(SplitOn(s, ".")) < 2 THEN s \o << ".", "p", "n", "g" >>
               ELSE s
    IN  [raised |-> FALSE, relative_path |-> relative_path, src |-> src,
         output |-> join(ColumnDir, src)]

ParseImg ==
    /\ mainPc = "call"
    /\ call.fn = "parse_imgs"
    /\ ret' = parse_img(call.src)
    /\ mainPc' = "returned"
    /\ UNCHANGED << call, args, root_toc, toc, col, queue, completed, total,
                    workerVars, progVars, fsVars, hist >>

\* the default of percent_complete's bar_width
bar_width == 60

\* int(round(n / d)) of Python 3: to the nearest integer, a half to the even one
RoundHalfEven(n, d) ==
    LET q == n \div d
        r == n % d
    IN  IF 2 * r < d THEN q
        ELSE IF 2 * r > d THEN q + 1
        ELSE IF q % 2 = 0 THEN q ELSE q + 1

\* the fill computed from the full blocks alone
fill_glyphs_NoPartial(num_ticks, max_ticks) == max_ticks \div 8 - num_ticks \div 8

\* int(max_ticks/8 - float(num_ticks)/8.0)
fill_glyphs(num_ticks, max_ticks) == (max_ticks - num_ticks) \div 8

\* percent_complete(step, total_steps, bar_width=w): the glyphs of the bar.
\* part is the index in utf_8s of the partial block, 0 when there is none.
percent_complete(step, total_steps, w) ==
    IF ~Renders(step, total_steps)
    THEN [raised |-> TRUE, num_ticks |-> 0, full |-> 0, part |-> 0, fill |-> 0]
    ELSE LET max_ticks == w * 8
             num_ticks == RoundHalfEven(step * max_ticks, total_steps)
         IN  [raised |-> FALSE, num_ticks |-> num_ticks,
              full |-> num_ticks \div 8, part |-> num_ticks % 8,
              fill |-> fill_glyphs(num_ticks, max_ticks)]

PercentComplete ==
    /\ mainPc = "call"
    /\ call.fn = "percent_complete"
    /\ ret' = percent_complete(call.step, call.total_steps, call.bar_width)
    /\ mainPc' = "returned"
    /\ UNCHANGED << call, args, root_toc, toc, col, queue, completed, total,
                    workerVars, progVars, fsVars, hist >>

\* progress_bar's calls: step and total_steps are the two counters, or the
\* total twice; bar_width is the default.  Narrower bars stand for it.
BarCalls ==
    { [fn |-> "percent_complete", step |-> s, total_steps |-> t, bar_width |-> w] :
          s \in 0..MaxTotal, t \in 0..MaxTotal, w \in 1..MaxWidth }
        \cup { [fn |-> "percent_complete", step |-> 50, total_steps |-> 100,
                bar_width |-> bar_width] }

Calls ==
    { [fn |-> "parse_toc", html |-> h] : h \in TocPages }
        \cup { [fn |-> "parse_imgs", src |-> s] : s \in Srcs }
        \cup { c \in BarCalls : c.step <= c.total_steps }

InitCall ==
    /\ call \in Calls
    /\ ret = NoRet
    /\ mainPc = "call"
    /\ args = ArgsAll
    /\ root_toc = << >>
    /\ toc = << >>
    /\ col = 0
    /\ queue = << >>
    /\ completed = 0
    /\ total = 0
    /\ wPc = "idle"
    /\ item = NoItem
    /\ downloaded = FALSE
    /\ processed = FALSE
    /\ data = NoDoc
    /\ pPc = "idle"
    /\ title = "unbound"
    /\ FsInit
    /\ hist = HistInit

NextCall ==
    \/ ParseToc
    \/ ParseImg
    \/ PercentComplete

SpecCall == InitCall /\ [][NextCall]_vars

\* ------------------------------------------------------------ claims
\* C1: scrape_worker increments completed once for every unit it dequeued,
\* whether the unit's processing returned or raised: whenever the worker is
\* between two units or has left its loop, completed equals the number of
\* units dequeued since the reset.
C1_CompletedCountsEveryUnit ==
    wPc \in {"loop", "done"} => completed = hist.deq

\* C2: a failure raised while a unit is processed never leaves scrape_worker:
\* after a unit's processing raised, the worker task has not ended with an
\* exception and main has not been aborted by it.
C2_FailureStaysInWorker ==
    hist.ended = "raised" => wPc # "crashed"

\* C3: when scrape_worker has finished, no unit is left in the queue and every
\* unit enqueued since the reset has been dequeued.
C3_WorkerEndsOnDrainedQueue ==
    wPc \in {"done", "crashed"} => queue = << >> /\ hist.deq = hist.enq

\* C4: total is 0 after the reset, get_sub_toc raises it to the number of
\* sub-TOC entries before any unit is dequeued, and at every moment total is
\* the number of units enqueued since the reset, each of which is in the
\* queue or was dequeued.
C4_TotalCountsEnqueuedUnits ==
    /\ total = hist.enq
    /\ total = Len(queue) + hist.deq
    /\ mainPc = "sub" => total = 0
    /\ (mainPc = "await_worker" /\ hist.deq = 0) => total = SiteSub(toc[col])

\* a page of a column of MaxSub entries was scraped and its images enqueued
C4_Witness ==
    /\ mainPc = "await_worker"
    /\ SiteSub(toc[col]) = MaxSub
    /\ hist.deq >= 1
    /\ total > SiteSub(toc[col])

\* C5: the columns are crawled in the order of the selection, one after
\* another: the columns reset so far are a prefix of toc, the counters are 0/0
\* when the sub-TOC is about to be fetched, and at a reset and until the tasks
\* of the column are created neither a worker nor a progress reporter is
\* running; range 1-2 selects the first two root entries.
C5_ColumnsInOrder ==
    /\ hist.started = SubSeq(toc, 1, Len(hist.started))
    /\ mainPc \in {"sub", "await_worker", "await_progress"} =>
            col = Len(hist.started)
    /\ mainPc = "sub" => completed = 0 /\ total = 0
    /\ mainPc \in {"reset", "sub"} => ~TaskRunning(wPc) /\ ~TaskRunning(pPc)
    /\ ~hist.busyAtReset
    /\ (args = ArgsRange(<<"1", "-", "2">>) /\ mainPc # "root") =>
            toc \in { << >>, << SiteRoot[1], SiteRoot[2] >> }

\* the second column of range 1-2 is about to be fetched, after the first
\* column's tasks ended
C5_Witness ==
    /\ args = ArgsRange(<<"1", "-", "2">>)
    /\ mainPc = "sub"
    /\ hist.started = << SiteRoot[1], SiteRoot[2] >>
    /\ wPc = "done"
    /\ pPc = "done"

\* the decimal numeral of a position
Numeral(n) == CASE n = 1 -> "1" [] n = 2 -> "2" [] n = 3 -> "3" [] OTHER -> "0"

\* C6: generate_toc returns the root entries the selection names, in root
\* order: all of them in all mode, those whose title is one of the given
\* titles in columns mode, those whose title contains the keyword in keyword
\* mode, and those at positions start..end for a range 'start-end' with
\* 1 <= start <= end <= N.
C6_GenerateTocSelects ==
    mainPc # "select" =>
        /\ args.mode = "all" => mainPc = "selected" /\ toc = root_toc
        /\ args.mode = "columns" =>
            /\ mainPc = "selected"
            /\ toc = SelectSeq(root_toc,
                   LAMBDA t : \E i \in 1..Len(args.columns) : args.columns[i] = t)
        /\ args.mode = "keyword" =>
            /\ mainPc = "selected"
            /\ toc = SelectSeq(root_toc, LAMBDA t : Contains(args.keyword, t))
        /\ args.mode = "range" =>
            \A st, en \in 1..Len(root_toc) :
                (st <= en /\ en <= 3
                    /\ args.range = << Numeral(st), "-", Numeral(en) >>)
                => mainPc = "selected" /\ toc = SubSeq(root_toc, st, en)

\* the current item is a scrape item whose processing has begun
Scraping == item.type = "scrape" /\ wPc \in {"acquire", "extract", "persist", "loop", "done"}

\* C7, as stated: on a run of scrape_and_persist that follows a run on the
\* same page that returned normally, the page is not fetched and the rendered
\* output keeps the content the first run left.
C7_SecondRunIdempotent ==
    (Scraping /\ Exists(hist.prev)) =>
        hist.fetches = 0 /\ mdf[PageOf(item)] = hist.prev

\* C7, amended: the same for a page whose first run left a raw-cache file, as
\* it does for every page with a post-body container.
C7_SecondRunIdempotentWithRawCache ==
    (Scraping /\ Exists(hist.prev) /\ Exists(hist.startRaw)) =>
        hist.fetches = 0 /\ mdf[PageOf(item)] = hist.prev

\* a second run on a page with a raw cache has returned
C7_Witness ==
    /\ Scraping
    /\ Exists(hist.prev)
    /\ Exists(hist.startRaw)
    /\ hist.ended = "ok"

\* C8, as stated: when the raw-cache file or the rendered-output file exists
\* at the start of scrape_and_persist, the page is not fetched.
C8_EitherFileStopsFetch ==
    (Scraping /\ (Exists(hist.startRaw) \/ Exists(hist.startMd))) =>
        hist.fetches = 0

\* C8, amended: when the raw-cache file exists at the start of
\* scrape_and_persist, the page is not fetched.
C8_RawCacheStopsFetch ==
    (Scraping /\ Exists(hist.startRaw)) => hist.fetches = 0

\* the content of a page with a raw cache was acquired
C8_Witness ==
    /\ Scraping
    /\ Exists(hist.startRaw)
    /\ wPc = "extract"

\* C9, as stated: scrape_and_persist opens for writing neither a raw cache nor
\* a rendered output that existed when it began, and leaves both unchanged.
C9_NeverWritesExisting ==
    Scraping =>
        /\ Exists(hist.startRaw) =>
              "raw" \notin hist.wrote /\ raw[PageOf(item)] = hist.startRaw
        /\ Exists(hist.startMd) =>
              /\ hist.wrote \cap {"md", "whole"} = {}
              /\ mdf[PageOf(item)] = hist.startMd

\* C9, amended: the raw cache that existed is never written; the rendered
\* output that existed is written by the whole-page branch only, which runs
\* only without a raw cache, and is unchanged on every other path.
C9_WritesExistingOnlyWholePage ==
    Scraping =>
        /\ Exists(hist.startRaw) =>
              /\ hist.wrote \cap {"raw", "whole"} = {}
              /\ raw[PageOf(item)] = hist.startRaw
        /\ Exists(hist.startMd) =>
              /\ "md" \notin hist.wrote
              /\ "whole" \notin hist.wrote => mdf[PageOf(item)] = hist.startMd

\* a run on a page with both files has returned
C9_Witness ==
    /\ Scraping
    /\ Exists(hist.startRaw)
    /\ Exists(hist.startMd)
    /\ hist.ended = "ok"

\* C10: dl_img on an output path that exists issues no request, calls dl_file
\* not at all and leaves the file as it was; on a path that does not exist it
\* calls dl_file once, which issues at most one request.
C10_DlImgIdempotent ==
    (item.type = "dl_img" /\ wPc \in {"loop", "done", "crashed"}) =>
        IF Exists(hist.startImg)
        THEN /\ hist.gets = 0
             /\ hist.dlCalls = 0
             /\ imgf[ImageOf(item)] = hist.startImg
        ELSE /\ hist.dlCalls = 1
             /\ hist.gets <= 1

\* dl_img returned on an output path that existed
C10_Witness ==
    /\ item.type = "dl_img"
    /\ Exists(hist.startImg)
    /\ hist.ended = "ok"
    /\ wPc = "loop"

Returned(fn) == mainPc = "returned" /\ call.fn = fn

\* C11: parse_toc returns the empty sequence and does not raise when the page
\* has no book-post element, and also when it has one that holds no <ul>.
C11_ParseTocEmptyWithoutList ==
    (Returned("parse_toc") /\ (~call.html.post \/ ~call.html.ul))
        => (~ret.raised /\ ret.toc = << >>)

\* whether s has a "." after its last "/"
HasExtension(s) ==
    \E i \in 1..Len(s) : s[i] = "." /\ \A j \in i..Len(s) : s[j] # "/"

\* C15: parse_imgs rewrites a src that has no "." after its last "/" to the src
\* followed by ".png", whatever its directory part holds, leaves any other src
\* as it is, and builds the output path from the src so rewritten.
C15_SrcWithoutExtensionGetsPng ==
    Returned("parse_imgs")
        => /\ ret.src = IF HasExtension(call.src) THEN call.src
                        ELSE call.src \o << ".", "p", "n", "g" >>
           /\ ret.output = join(ColumnDir, ret.src)

C12_WholePageAlwaysWritten ==
    [][(wPc = "extract" /\ WholePage(data, downloaded, processed))
          => /\ hist'.ended # "nodir"
             /\ hist'.ended = "ok"
                   => /\ mdf'[PageOf(item)] = File("html", data)
                      /\ queue' = queue
                      /\ total' = total
                      /\ raw' = raw
                      /\ rawDirs' = rawDirs]_vars

\* C13: every session.get of fetch_html and of dl_file comes right after a
\* sleep of RequestFrequency in the same call: the get is never the call's
\* first step, and the step before it is the sleep.
C13_GetFollowsSleep ==
    \A i \in 1..Len(hist.net) :
        hist.net[i] = "get" => (i > 1 /\ hist.net[i - 1] = "sleep")

\* an image download that reached its session.get
C13_Witness ==
    /\ item.type = "dl_img"
    /\ hist.gets = 1
    /\ \E i \in 1..Len(hist.net) : hist.net[i] = "get"

\* where a unit stands in the order of the column: the sub-TOC entries in
\* document order, then the images by the page they were found on and by
\* their place on it
Before(a, b) ==
    \/ a.type = "scrape" /\ b.type = "dl_img"
    \/ a.type = b.type /\ a.page < b.page
    \/ a.type = b.type /\ a.page = b.page /\ a.src < b.src

\* the unit the worker took last, then the units in the queue
Pending == IF hist.deq > 0 THEN << item >> \o queue ELSE queue

\* C14: units leave the queue in the order they were put on it: the unit the
\* worker took comes before every unit still in the queue, and the queue holds
\* the column's sub-TOC entries in document order before every image, the
\* images in the order they were found.
C14_QueueIsFifo ==
    \A i, j \in 1..Len(Pending) : i < j => Before(Pending[i], Pending[j])

\* an image is processed while an image found later waits, and no sub-TOC
\* entry is left
C14_Witness ==
    /\ wPc = "dl"
    /\ queue # << >>
    /\ Head(queue).type = "dl_img"
    /\ Head(queue).page > item.page

\* a unit was taken from the queue and its processing has not ended
InFlight == wPc \in {"acquire", "extract", "persist", "dl"}

\* progress_bar is past its sampling loop
PastLoop == pPc \in {"final", "done"}

\* C17 as stated: progress_bar leaves its sampling loop, and renders the final
\* 100%, only when the worker has processed every unit of the column: no unit
\* is being processed and none is left in the queue.
C17_FinalRenderAfterLastUnit ==
    PastLoop => (~InFlight /\ queue = << >>)

\* C17: progress_bar leaves its sampling loop only on a test that finds the
\* queue empty, and renders the final 100% only after it left the loop.
C17_LoopLeftOnEmptyQueue ==
    [][/\ (pPc \in {"start", "sleeping"} /\ pPc' = "final") => queue = << >>
       /\ (pPc # "done" /\ pPc' = "done") => pPc = "final"]_vars

\* the final 100% was rendered while a unit is processed and another waits
C17_Witness ==
    /\ pPc = "done"
    /\ InFlight
    /\ queue # << >>

\* C18: a column whose sub-TOC is empty ends without an error: neither
\* scrape_worker nor progress_bar ends with an exception, so main goes on to
\* the next column.
C18_EmptyColumnCompletes ==
    (col >= 1 /\ hist.started # << >> /\ SiteSub(toc[col]) = 0)
        => (wPc # "crashed" /\ pPc # "crashed")

\* C19: a file is at an image's output path only if a session.get for it was
\* answered with status 200.
C19_ImageFileOnlyFromSuccess ==
    \A i \in Images : Exists(imgf[i]) => imgf[i].kind = "png"

\* C20: total is completed plus the units whose processing raised since the
\* reset, plus the units in the queue, plus the unit being processed; so
\* completed never exceeds total; and the queue is empty when main is about
\* to reset the counters for the next column.
C20_CountersConserved ==
    /\ total = completed + hist.raised + Len(queue) + (IF InFlight THEN 1 ELSE 0)
    /\ completed <= total
    /\ mainPc = "reset" => queue = << >>

\* one unit processed, one raised, one being processed and one waiting
C20_Witness ==
    /\ completed >= 1
    /\ hist.raised >= 1
    /\ InFlight
    /\ queue # << >>


====
